---- MODULE Spec2Model ----
(***************************************************************************)
(* Model of convert_office_to_pdf.py: a recursive walk over an input       *)
(* folder that converts Office documents to PDF, copies other files, and   *)
(* moves every handled source file into a "processed" (archive) folder.    *)
(*                                                                         *)
(* Paths are records [abs, parts, stem, ext]: the directory components,    *)
(* and the file name split the way os.path.splitext splits it.  A          *)
(* directory is a record [abs, parts].  The file system is a function from *)
(* path to content plus the set of directories that exist.                 *)
(***************************************************************************)
EXTENDS Integers, Sequences, FiniteSets, TLC

\* ------------------------------------------------------------- bounds
MaxFiles == 2       \* files in the input tree when the first run starts
MaxRuns == 2        \* invocations of the script over the same folders

\* ------------------------------------------------------------- paths
Dir(abs, parts) == [abs |-> abs, parts |-> parts]
File(abs, parts, stem, ext) == [abs |-> abs, parts |-> parts, stem |-> stem, ext |-> ext]

\* os.path.join(base, p): an absolute p discards base
Join(base, p) ==
    IF p.abs THEN p
    ELSE File(base.abs, base.parts \o p.parts, p.stem, p.ext)

\* os.path.dirname(p)
Dirname(p) == Dir(p.abs, p.parts)

\* os.path.relpath(p, start) for p below start
Relpath(p, start) ==
    File(FALSE, SubSeq(p.parts, Len(start.parts) + 1, Len(p.parts)), p.stem, p.ext)

\* os.path.splitext(p)[0] + ".pdf"
PdfName(p) == [p EXCEPT !.ext = ".pdf"]

\* str.lower() on the extensions that occur
Lower(ext) ==
    CASE ext = ".XLSX" -> ".xlsx"
      [] ext = ".DOCX" -> ".docx"
      [] OTHER -> ext

\* os.path.splitext(filename)[1].lower()
FileExt(p) == Lower(p.ext)

\* ------------------------------------------------------------- folders
input_folder == Dir(FALSE, <<"in">>)
processed_base_folder == Dir(FALSE, <<"arc">>)
log_folder == Dir(FALSE, <<"log">>)
\* --output-folder may be given as an absolute or as a relative path
OutputBase(outAbs) == Dir(outAbs, <<"out">>)

\* the files an input tree is drawn from, relative to input_folder
Universe ==
    { File(FALSE, <<>>, "readme", ".txt"),
      File(FALSE, <<"a">>, "report", ".doc"),
      File(FALSE, <<"a">>, "report", ".docx"),
      File(FALSE, <<"a">>, "report", ".txt"),
      File(FALSE, <<"a", "b">>, "data", ".XLSX"),
      File(FALSE, <<"a", "b">>, "slides", ".ppt") }

\* ------------------------------------------------------------- file system
Raw(rel) == [src |-> rel, kind |-> "raw"]
Pdf(rel) == [src |-> rel, kind |-> "pdf"]

Exists(fs, p) == p \in DOMAIN fs

WriteFile(fs, p, c) == [q \in DOMAIN fs \cup {p} |-> IF q = p THEN c ELSE fs[q]]

RemoveFile(fs, p) == [q \in DOMAIN fs \ {p} |-> fs[q]]

\* shutil.move(src, dst) of a regular file
ShutilMove(fs, src, dst) == RemoveFile(WriteFile(fs, dst, fs[src]), src)

\* shutil.copy(src, dst)
ShutilCopy(fs, src, dst) == WriteFile(fs, dst, fs[src])

\* os.makedirs(d, exist_ok=True): d and every missing ancestor
Makedirs(dirs, d) ==
    dirs \cup { Dir(d.abs, SubSeq(d.parts, 1, k)) : k \in 1..Len(d.parts) }

\* ------------------------------------------------------------- run log
Entry(level, msg, ref) == [level |-> level, msg |-> msg, ref |-> ref]

\* print_info / print_success log at INFO, print_error at ERROR
print_info(st, msg, ref) == [st EXCEPT !.log = Append(@, Entry("INFO", msg, ref))]
print_success(st, msg, ref) == [st EXCEPT !.log = Append(@, Entry("INFO", msg, ref))]
print_error(st, msg, ref) == [st EXCEPT !.log = Append(@, Entry("ERROR", msg, ref))]

\* ------------------------------------------------------------- handlers
(* A handler is an operator from the program state st = [fs, dirs, log,    *)
(* flow, calls, moves, failed] to the state it leaves.  flow is "run",     *)
(* "break" (the retry loop was left) or "raise" (an exception is           *)
(* propagating).  calls, moves and failed record what happened: the        *)
(* outcome of every external conversion call per file, the number of       *)
(* completed moves per file, and whether any call or file operation        *)
(* failed.  The Boolean parameters are the outcomes of the external calls: *)
(* mk of os.makedirs, mv of shutil.move, cp of shutil.copy, ok of the COM  *)
(* conversion.  os.makedirs cannot fail on a directory that exists.        *)

Raise(st) == [st EXCEPT !.flow = "raise", !.failed = TRUE]

\* move_to_processed archiving under the bare file name
move_to_processed_flat(st, file_path, rel_path, mk, mv) ==
    LET processed_path == Join(processed_base_folder, [rel_path EXCEPT !.parts = <<>>])
        d == Dirname(processed_path)
    IN  IF d \notin st.dirs /\ ~mk
        THEN Raise(st)
        ELSE LET s1 == [st EXCEPT !.dirs = Makedirs(@, d)]
             IN  IF mv
                 THEN print_info([s1 EXCEPT !.fs = ShutilMove(@, file_path, processed_path),
                                            !.moves[rel_path] = @ + 1],
                                 "Moved to Processed", rel_path)
                 ELSE print_error([s1 EXCEPT !.failed = TRUE],
                                  "Error moving file", file_path)

\* move_to_processed(file_path, rel_path)
move_to_processed(st, file_path, rel_path, mk, mv) ==
    LET processed_path == Join(processed_base_folder, rel_path)
        d == Dirname(processed_path)
    IN  IF d \notin st.dirs /\ ~mk
        THEN Raise(st)
        ELSE LET s1 == [st EXCEPT !.dirs = Makedirs(@, d)]
             IN  IF mv
                 THEN print_info([s1 EXCEPT !.fs = ShutilMove(@, file_path, processed_path),
                                            !.moves[rel_path] = @ + 1],
                                 "Moved to Processed", rel_path)
                 ELSE print_error([s1 EXCEPT !.failed = TRUE],
                                  "Error moving file", file_path)

\* copy_to_output(file_path, rel_path)
copy_to_output(st, file_path, rel_path, mk, cp) ==
    LET processed_path == Join(processed_base_folder, rel_path)
        d == Dirname(processed_path)
    IN  IF d \notin st.dirs /\ ~mk
        THEN Raise(st)
        ELSE LET s1 == [st EXCEPT !.dirs = Makedirs(@, d)]
             IN  IF cp
                 THEN print_info([s1 EXCEPT !.fs = ShutilCopy(@, file_path, processed_path)],
                                 "Copy to Output", rel_path)
                 ELSE print_error([s1 EXCEPT !.failed = TRUE],
                                  "Error copying file", file_path)

\* The COM calls Dispatch .. Quit of one handler: convert(source, dest) ->
\* success | failure.  A failed call leaves no destination file.
ExternalConvert(st, input_path, output_path, rel_path, ok) ==
    LET s1 == [st EXCEPT !.calls[rel_path] = Append(@, ok)]
    IN  IF ok
        THEN [s1 EXCEPT !.fs = WriteFile(@, output_path,
                                         [src |-> st.fs[input_path].src, kind |-> "pdf"])]
        ELSE Raise(s1)

WordTries == 3
WordGiveUp == 3

\* the except clause reporting a failed attempt at INFO level only
WordExceptInfoOnly(st, rel_path, attempt) ==
    LET s1 == print_info([st EXCEPT !.flow = "run"], "Error converting Word file", rel_path)
        s2 == print_info(s1, "Retrying attempt", rel_path)
    IN  IF attempt > WordGiveUp
        THEN Raise(print_error(s2, "Failed to convert Word file", rel_path))
        ELSE s2

\* the except clause giving up in the last iteration of the loop
WordExceptGivingUp(st, rel_path, attempt) ==
    LET s1 == print_error([st EXCEPT !.flow = "run"], "Error converting Word file", rel_path)
        s2 == print_info(s1, "Retrying attempt", rel_path)
    IN  IF attempt + 1 >= WordGiveUp
        THEN Raise(print_error(s2, "Failed to convert Word file", rel_path))
        ELSE s2

\* the except clause of convert_word_to_pdf, entered in iteration `attempt`
WordExcept(st, rel_path, attempt) ==
    LET s1 == print_error([st EXCEPT !.flow = "run"], "Error converting Word file", rel_path)
        s2 == print_info(s1, "Retrying attempt", rel_path)
    IN  IF attempt > WordGiveUp
        THEN Raise(print_error(s2, "Failed to convert Word file", rel_path))
        ELSE s2

\* one iteration of the retry loop of convert_word_to_pdf
WordIteration(st, input_path, output_path, rel_path, attempt, ok, mk, mv) ==
    LET s1 == ExternalConvert(st, input_path, output_path, rel_path, ok)
    IN  IF s1.flow = "raise"
        THEN WordExcept(s1, rel_path, attempt)
        ELSE LET s2 == print_success(s1, "Word converted", rel_path)
                 s3 == move_to_processed(s2, input_path, rel_path, mk, mv)
             IN  IF s3.flow = "raise"
                 THEN WordExcept(s3, rel_path, attempt)
                 ELSE [s3 EXCEPT !.flow = "break"]

\* convert_excel_to_pdf archiving the source whether or not it was converted
convert_excel_to_pdf_archiving(st, input_path, output_path, rel_path, ok, mk, mv) ==
    LET s1 == ExternalConvert(st, input_path, output_path, rel_path, ok)
        s2 == IF s1.flow = "raise"
              THEN print_error([s1 EXCEPT !.flow = "run"],
                               "Error converting Excel file", rel_path)
              ELSE print_success(s1, "Excel converted", rel_path)
        s3 == move_to_processed(s2, input_path, rel_path, mk, mv)
    IN  IF s3.flow = "raise"
        THEN print_error([s3 EXCEPT !.flow = "run"], "Error converting Excel file", rel_path)
        ELSE s3

\* convert_excel_to_pdf(input_path, output_path, rel_path)
convert_excel_to_pdf(st, input_path, output_path, rel_path, ok, mk, mv) ==
    LET s1 == ExternalConvert(st, input_path, output_path, rel_path, ok)
    IN  IF s1.flow = "raise"
        THEN print_error([s1 EXCEPT !.flow = "run"], "Error converting Excel file", rel_path)
        ELSE LET s2 == print_success(s1, "Excel converted", rel_path)
                 s3 == move_to_processed(s2, input_path, rel_path, mk, mv)
             IN  IF s3.flow = "raise"
                 THEN print_error([s3 EXCEPT !.flow = "run"],
                                  "Error converting Excel file", rel_path)
                 ELSE s3

\* convert_powerpoint_to_pdf swallowing the exception without a log entry
convert_powerpoint_to_pdf_silent(st, input_path, output_path, rel_path, ok, mk, mv) ==
    LET s1 == ExternalConvert(st, input_path, output_path, rel_path, ok)
    IN  IF s1.flow = "raise"
        THEN [s1 EXCEPT !.flow = "run"]
        ELSE LET s2 == print_success(s1, "PowerPoint converted", rel_path)
                 s3 == move_to_processed(s2, input_path, rel_path, mk, mv)
             IN  IF s3.flow = "raise"
                 THEN print_error([s3 EXCEPT !.flow = "run"],
                                  "Error converting PowerPoint file", rel_path)
                 ELSE s3

\* convert_powerpoint_to_pdf(input_path, output_path, rel_path)
convert_powerpoint_to_pdf(st, input_path, output_path, rel_path, ok, mk, mv) ==
    LET s1 == ExternalConvert(st, input_path, output_path, rel_path, ok)
    IN  IF s1.flow = "raise"
        THEN print_error([s1 EXCEPT !.flow = "run"],
                         "Error converting PowerPoint file", rel_path)
        ELSE LET s2 == print_success(s1, "PowerPoint converted", rel_path)
                 s3 == move_to_processed(s2, input_path, rel_path, mk, mv)
             IN  IF s3.flow = "raise"
                 THEN print_error([s3 EXCEPT !.flow = "run"],
                                  "Error converting PowerPoint file", rel_path)
                 ELSE s3

\* the already-converted branch of convert_office_files_recursively
SkipBranch(st, file_path, rel_path, mk, mv) ==
    move_to_processed(print_info(st, "Skipping (already converted)", rel_path),
                      file_path, rel_path, mk, mv)

\* the else branch of convert_office_files_recursively
UnsupportedBranch(st, file_path, rel_path, output_pdf_path, mkc, cp, mk, mv) ==
    LET s1 == print_info(st, "Skipping (unsupported file)", rel_path)
        s2 == copy_to_output(s1, file_path, output_pdf_path, mkc, cp)
    IN  IF s2.flow = "raise"
        THEN s2
        ELSE move_to_processed(s2, file_path, rel_path, mk, mv)

\* ------------------------------------------------------------- state
VARIABLES
    fs,        \* the file system: path -> content
    dirs,      \* the directories that exist
    log,       \* the run's log file, a sequence of entries
    outAbs,    \* whether --output-folder is an absolute path
    pc,        \* "start", "walk", "word", "done" or "crashed"
    run,       \* the number of the current invocation
    visited,   \* the files os.walk has yielded in this run
    cur,       \* the file convert_word_to_pdf is working on
    attempt,   \* its loop variable
    calls,     \* per file, the outcomes of the conversion calls of this run
    moves,     \* per file, the completed shutil.move calls of this run
    route,     \* per file, the branch of the traversal taken in this run
    hadDest,   \* the files whose destination existed when they were visited
    start,     \* the files under the input folder when this run started
    failed,    \* whether an external call or file operation failed in this run
    upc,       \* upload_to_oci: "check", "walk", "done", "returned" or "crashed"
    bucketCheck, \* the outcome of get_bucket: "none" before the call
    uvisited,  \* the files the uploader's os.walk has yielded
    puts,      \* the put_object calls issued, in order
    objects,   \* the bucket: object name -> body
    stdout     \* what the uploader printed

\* the state of convert_office_to_pdf.py and of upload_pdf_to_oci_bucket.py
converter == <<fs, dirs, log, outAbs, pc, run, visited, cur, attempt, calls, moves, route,
               hadDest, start, failed>>
uploader == <<upc, bucketCheck, uvisited, puts, objects, stdout>>

vars == <<converter, uploader>>

output_base_folder == OutputBase(outAbs)

IsUnder(p, d) ==
    /\ p.abs = d.abs
    /\ Len(p.parts) >= Len(d.parts)
    /\ SubSeq(p.parts, 1, Len(d.parts)) = d.parts

IsProperPrefix(s, t) == Len(s) < Len(t) /\ SubSeq(t, 1, Len(s)) = s

InputFiles == { p \in DOMAIN fs : IsUnder(p, input_folder) }

\* os.walk is top-down: the files of a directory are yielded before those
\* of its subdirectories, in the arbitrary order of the directory listing
WalkNext ==
    { p \in InputFiles \ visited :
        \A q \in InputFiles \ visited : ~IsProperPrefix(q.parts, p.parts) }

\* rel_path and output_pdf_path of convert_office_files_recursively
RelPathOf(file_path) == Relpath(file_path, input_folder)
OutputPdfPath(file_path) == Join(output_base_folder, PdfName(RelPathOf(file_path)))

\* the traversal without its already-converted check
AlreadyConvertedNever(file_path) == FALSE

\* line 111: os.path.exists(output_pdf_path)
AlreadyConverted(file_path) == Exists(fs, OutputPdfPath(file_path))

\* what the file system held at the destination when file_path was visited
NoteDest(file_path) ==
    hadDest' = IF Exists(fs, OutputPdfPath(file_path))
               THEN hadDest \cup {RelPathOf(file_path)}
               ELSE hadDest

State == [fs |-> fs, dirs |-> dirs, log |-> log, flow |-> "run",
          calls |-> calls, moves |-> moves, failed |-> failed]

NoCalls == [f \in Universe |-> <<>>]
NoMoves == [f \in Universe |-> 0]
NoRoute == [f \in Universe |-> "none"]
NoFile == File(FALSE, <<>>, "", "")

\* upload_to_oci has not been called
UploaderIdle ==
    /\ upc = "check"
    /\ bucketCheck = "none"
    /\ uvisited = {}
    /\ puts = <<>>
    /\ objects = <<>>
    /\ stdout = <<>>

Init ==
    /\ \E S \in SUBSET Universe :
          /\ Cardinality(S) \in 1..MaxFiles
          /\ fs = [p \in { Join(input_folder, f) : f \in S } |-> Raw(RelPathOf(p))]
          /\ dirs = UNION { Makedirs({}, Dirname(Join(input_folder, f))) : f \in S }
    /\ outAbs \in BOOLEAN
    /\ log = <<>>
    /\ pc = "start"
    /\ run = 1
    /\ visited = {}
    /\ cur = NoFile
    /\ attempt = 0
    /\ calls = NoCalls
    /\ moves = NoMoves
    /\ route = NoRoute
    /\ hadDest = {}
    /\ start = {}
    /\ failed = FALSE
    /\ UploaderIdle

\* the state left by a handler, and where the traversal goes from there
Leave(st, next) ==
    /\ fs' = st.fs
    /\ dirs' = st.dirs
    /\ log' = st.log
    /\ calls' = st.calls
    /\ moves' = st.moves
    /\ failed' = st.failed
    /\ pc' = IF st.flow = "raise" THEN "crashed" ELSE next

\* module startup going on to the traversal although an os.makedirs failed
StartupIgnoringFailure ==
    /\ pc = "start"
    /\ \E k \in 0..3 :
          LET roots == <<output_base_folder, processed_base_folder, log_folder>>
              made == UNION { Makedirs({}, roots[i]) : i \in 1..k }
          IN  /\ k < 3 => roots[k + 1] \notin dirs
              /\ Leave(print_info([State EXCEPT !.dirs = @ \cup made, !.failed = k < 3],
                                  "Start processing", NoFile), "walk")
    /\ start' = { RelPathOf(p) : p \in InputFiles }
    /\ UNCHANGED <<uploader, outAbs, run, visited, cur, attempt, route, hadDest>>

\* module startup: the three os.makedirs, logging.basicConfig, "Start processing"
Startup ==
    /\ pc = "start"
    /\ \E k \in 0..3 :
          LET roots == <<output_base_folder, processed_base_folder, log_folder>>
              made == UNION { Makedirs({}, roots[i]) : i \in 1..k }
          IN  /\ k < 3 => roots[k + 1] \notin dirs
              /\ IF k = 3
                 THEN Leave(print_info([State EXCEPT !.dirs = @ \cup made],
                                       "Start processing", NoFile), "walk")
                 ELSE Leave(Raise([State EXCEPT !.dirs = @ \cup made]), "walk")
    /\ start' = { RelPathOf(p) : p \in InputFiles }
    /\ UNCHANGED <<uploader, outAbs, run, visited, cur, attempt, route, hadDest>>

\* line 108: os.makedirs of the destination directory raises
VisitMakedirsFails ==
    /\ pc = "walk"
    /\ \E file_path \in WalkNext :
          /\ Dirname(OutputPdfPath(file_path)) \notin dirs
          /\ visited' = visited \cup {file_path}
          /\ Leave(Raise(State), "walk")
    /\ UNCHANGED <<uploader, outAbs, run, cur, attempt, route, hadDest, start>>

\* the state after line 108 succeeded
Visited(file_path) ==
    [State EXCEPT !.dirs = Makedirs(@, Dirname(OutputPdfPath(file_path)))]

\* lines 111-114: the destination exists
SkipAlreadyConverted ==
    /\ pc = "walk"
    /\ \E file_path \in WalkNext, mk, mv \in BOOLEAN :
          /\ AlreadyConverted(file_path)
          /\ visited' = visited \cup {file_path}
          /\ NoteDest(file_path)
          /\ route' = [route EXCEPT ![RelPathOf(file_path)] = "skip"]
          /\ Leave(SkipBranch(Visited(file_path), file_path, RelPathOf(file_path), mk, mv),
                   "walk")
    /\ UNCHANGED <<uploader, outAbs, run, cur, attempt, start>>

\* lines 117-118: convert_word_to_pdf is entered
DispatchWord ==
    /\ pc = "walk"
    /\ \E file_path \in WalkNext :
          /\ ~AlreadyConverted(file_path)
          /\ FileExt(file_path) \in {".doc", ".docx"}
          /\ visited' = visited \cup {file_path}
          /\ NoteDest(file_path)
          /\ route' = [route EXCEPT ![RelPathOf(file_path)] = "word"]
          /\ cur' = file_path
          /\ attempt' = 0
          /\ Leave(Visited(file_path), "word")
    /\ UNCHANGED <<uploader, outAbs, run, start>>

\* lines 56-72: one iteration of the retry loop
WordAttempt ==
    /\ pc = "word"
    /\ \E ok, mk, mv \in BOOLEAN :
          LET st == WordIteration(State, cur, OutputPdfPath(cur), RelPathOf(cur),
                                  attempt, ok, mk, mv)
              more == st.flow = "run" /\ attempt + 1 < WordTries
          IN  /\ Leave(st, IF more THEN "word" ELSE "walk")
              /\ attempt' = IF more THEN attempt + 1 ELSE 0
              /\ cur' = IF more THEN cur ELSE NoFile
    /\ UNCHANGED <<uploader, outAbs, run, visited, route, hadDest, start>>

\* lines 119-120
ConvertExcel ==
    /\ pc = "walk"
    /\ \E file_path \in WalkNext, ok, mk, mv \in BOOLEAN :
          /\ ~AlreadyConverted(file_path)
          /\ FileExt(file_path) \in {".xls", ".xlsx"}
          /\ visited' = visited \cup {file_path}
          /\ NoteDest(file_path)
          /\ route' = [route EXCEPT ![RelPathOf(file_path)] = "excel"]
          /\ Leave(convert_excel_to_pdf(Visited(file_path), file_path,
                                        OutputPdfPath(file_path), RelPathOf(file_path),
                                        ok, mk, mv), "walk")
    /\ UNCHANGED <<uploader, outAbs, run, cur, attempt, start>>

\* lines 121-122
ConvertPowerPoint ==
    /\ pc = "walk"
    /\ \E file_path \in WalkNext, ok, mk, mv \in BOOLEAN :
          /\ ~AlreadyConverted(file_path)
          /\ FileExt(file_path) \in {".ppt", ".pptx"}
          /\ visited' = visited \cup {file_path}
          /\ NoteDest(file_path)
          /\ route' = [route EXCEPT ![RelPathOf(file_path)] = "powerpoint"]
          /\ Leave(convert_powerpoint_to_pdf(Visited(file_path), file_path,
                                             OutputPdfPath(file_path), RelPathOf(file_path),
                                             ok, mk, mv), "walk")
    /\ UNCHANGED <<uploader, outAbs, run, cur, attempt, start>>

\* lines 123-126
CopyUnsupported ==
    /\ pc = "walk"
    /\ \E file_path \in WalkNext, mkc, cp, mk, mv \in BOOLEAN :
          /\ ~AlreadyConverted(file_path)
          /\ FileExt(file_path) \notin {".doc", ".docx", ".xls", ".xlsx", ".ppt", ".pptx"}
          /\ visited' = visited \cup {file_path}
          /\ NoteDest(file_path)
          /\ route' = [route EXCEPT ![RelPathOf(file_path)] = "unsupported"]
          /\ Leave(UnsupportedBranch(Visited(file_path), file_path, RelPathOf(file_path),
                                     OutputPdfPath(file_path), mkc, cp, mk, mv), "walk")
    /\ UNCHANGED <<uploader, outAbs, run, cur, attempt, start>>

\* os.walk is exhausted: "Finish processing"
Finish ==
    /\ pc = "walk"
    /\ WalkNext = {}
    /\ Leave(print_success(State, "Finish processing", NoFile), "done")
    /\ UNCHANGED <<uploader, outAbs, run, visited, cur, attempt, route, hadDest, start>>

\* the script is started again over the same folders
Rerun ==
    /\ pc \in {"done", "crashed"}
    /\ run < MaxRuns
    /\ run' = run + 1
    /\ pc' = "start"
    /\ log' = <<>>
    /\ visited' = {}
    /\ cur' = NoFile
    /\ attempt' = 0
    /\ calls' = NoCalls
    /\ moves' = NoMoves
    /\ route' = NoRoute
    /\ hadDest' = {}
    /\ start' = {}
    /\ failed' = FALSE
    /\ UNCHANGED <<uploader, fs, dirs, outAbs>>

Next ==
    \/ Startup
    \/ VisitMakedirsFails
    \/ SkipAlreadyConverted
    \/ DispatchWord
    \/ WordAttempt
    \/ ConvertExcel
    \/ ConvertPowerPoint
    \/ CopyUnsupported
    \/ Finish
    \/ Rerun

Spec == Init /\ [][Next]_vars

\* ------------------------------------------------------------- uploader
\* --folder-path, and the files that may lie below it
folder_path == Dir(FALSE, <<"pdf">>)

UploadUniverse == Universe \cup { PdfName(f) : f \in Universe }

\* os.walk(folder_path): the files below the folder, a directory's own files
\* before those of its subdirectories
UploadFiles == { p \in DOMAIN fs : IsUnder(p, folder_path) }

UploadWalkNext ==
    { p \in UploadFiles \ uvisited :
        \A q \in UploadFiles \ uvisited : ~IsProperPrefix(q.parts, p.parts) }

\* an object name that drops the folders between folder_path and the file
ObjectNameFlat(file_path) == File(FALSE, <<>>, file_path.stem, file_path.ext)

\* line 21
ObjectName(file_path) == Relpath(file_path, folder_path)

\* put_object stores the body under the name, replacing an object of that name
PutObject(bucket, object_name, body) ==
    [n \in DOMAIN bucket \cup {object_name} |->
        IF n = object_name THEN body ELSE bucket[n]]

\* the script is started on a folder; the converter is not running
UploadInit ==
    /\ \E S \in SUBSET UploadUniverse :
          /\ Cardinality(S) \in 0..MaxFiles
          /\ fs = [p \in { Join(folder_path, f) : f \in S } |-> Raw(Relpath(p, folder_path))]
          /\ dirs = UNION { Makedirs({}, Dirname(Join(folder_path, f))) : f \in S }
    /\ outAbs = FALSE
    /\ log = <<>>
    /\ pc = "start"
    /\ run = 1
    /\ visited = {}
    /\ cur = NoFile
    /\ attempt = 0
    /\ calls = NoCalls
    /\ moves = NoMoves
    /\ route = NoRoute
    /\ hadDest = {}
    /\ start = {}
    /\ failed = FALSE
    /\ UploaderIdle

\* lines 11-15: get_bucket returns, raises ServiceError (caught: print and
\* return) or raises another exception (not caught)
CheckBucket ==
    /\ upc = "check"
    /\ \E outcome \in {"ok", "ServiceError", "error"} :
          /\ bucketCheck' = outcome
          /\ upc' = CASE outcome = "ok" -> "walk"
                      [] outcome = "ServiceError" -> "returned"
                      [] OTHER -> "crashed"
          /\ stdout' = IF outcome = "ServiceError"
                       THEN Append(stdout, [msg |-> "Bucket does not exist or is not accessible",
                                            file_path |-> NoFile, object_name |-> NoFile])
                       ELSE stdout
    /\ UNCHANGED <<converter, uvisited, puts, objects>>

\* lines 18-31: one file of the walk; open and put_object are not guarded
UploadFile ==
    /\ upc = "walk"
    /\ \E file_path \in UploadWalkNext, opened, stored \in BOOLEAN :
          LET object_name == ObjectName(file_path)
          IN  /\ uvisited' = uvisited \cup {file_path}
              /\ stdout' = Append(stdout, [msg |-> "Uploading", file_path |-> file_path,
                                           object_name |-> object_name])
              /\ puts' = IF opened
                         THEN Append(puts, [object_name |-> object_name,
                                            body |-> fs[file_path]])
                         ELSE puts
              /\ objects' = IF opened /\ stored
                            THEN PutObject(objects, object_name, fs[file_path])
                            ELSE objects
              /\ upc' = IF opened /\ stored THEN "walk" ELSE "crashed"
    /\ UNCHANGED <<converter, bucketCheck>>

\* os.walk is exhausted: upload_to_oci returns
UploadFinish ==
    /\ upc = "walk"
    /\ UploadWalkNext = {}
    /\ upc' = "done"
    /\ UNCHANGED <<converter, bucketCheck, uvisited, puts, objects, stdout>>

UploadNext ==
    \/ CheckBucket
    \/ UploadFile
    \/ UploadFinish

SpecUpload == UploadInit /\ [][UploadNext]_vars

\* ============================================================= properties
InPath(f) == Join(input_folder, f)
ArcPath(f) == Join(processed_base_folder, f)
Dest(f) == OutputPdfPath(InPath(f))
InInput(f) == Exists(fs, InPath(f))
Archived(f) == Exists(fs, ArcPath(f)) /\ fs[ArcPath(f)] = Raw(f)
Handlers == {"word", "excel", "powerpoint"}
Office(f) == FileExt(f) \in {".doc", ".docx", ".xls", ".xlsx", ".ppt", ".pptx"}
Discovered(f) == InPath(f) \in visited
\* the handler of f has returned to the traversal
Returned(f) == Discovered(f) /\ pc # "crashed" /\ ~(pc = "word" /\ cur = InPath(f))
SomeCallOk(f) == \E i \in 1..Len(calls[f]) : calls[f][i]
AllCallsFailed(f) == calls[f] # <<>> /\ ~SomeCallOk(f)
Logged(level, msg, ref) == \E i \in 1..Len(log) : log[i] = Entry(level, msg, ref)
\* a copy of f's bytes exists outside the input folder and the archive path
CopyOf(f) == \E p \in DOMAIN fs : p # InPath(f) /\ p # ArcPath(f) /\ fs[p] = Raw(f)

\* ------------------------------------------------------------- C1
ConvertedArchived(f) ==
    route[f] \in Handlers /\ SomeCallOk(f) /\ Archived(f) /\ ~InInput(f)
CopiedArchived(f) ==
    route[f] = "unsupported" /\ CopyOf(f) /\ Archived(f) /\ ~InInput(f)
SkippedArchived(f) ==
    route[f] = "skip" /\ Archived(f) /\ ~InInput(f)
FailedRetained(f) ==
    route[f] # "none" /\ InInput(f) /\ ~Exists(fs, ArcPath(f))
TerminalStates(f) ==
    { t \in {"converted", "copied", "skipped", "failed"} :
        \/ t = "converted" /\ ConvertedArchived(f)
        \/ t = "copied" /\ CopiedArchived(f)
        \/ t = "skipped" /\ SkippedArchived(f)
        \/ t = "failed" /\ FailedRetained(f) }

\* C1: when a run has finished, every discovered file is in exactly one of
\* the terminal states converted+archived, copied-as-unsupported+archived,
\* skipped-already-done+archived, failed+left-in-place; it is not both in
\* the archive and in the input tree, and it was moved at most once.
C1_ExactlyOneTerminalState ==
    pc = "done" =>
        \A f \in Universe :
            Discovered(f) =>
                /\ Cardinality(TerminalStates(f)) = 1
                /\ ~(InInput(f) /\ Exists(fs, ArcPath(f)))
                /\ moves[f] <= 1

\* ------------------------------------------------------------- C2
\* C2 as claimed: in a re-run, a file whose destination already exists is
\* passed to no conversion handler and its source is moved to the archive.
C2_RerunSkipsAndArchives ==
    (run >= 2 /\ pc # "crashed") =>
        \A f \in hadDest : calls[f] = <<>> /\ Archived(f) /\ ~InInput(f)

\* C2 as amended: a file whose destination exists when it is visited is
\* passed to no conversion handler, and its source is either in the archive
\* at its relative path and gone from the input tree, or its move failed
\* (an "Error moving file" entry names it, or creating its archive
\* directory ended the run) and the source is still in the input tree and
\* not in the archive; a file that was not under the input root when the
\* run started is neither visited, converted nor moved in that run.
C2_RerunIdempotent ==
    /\ \A f \in hadDest :
          /\ calls[f] = <<>>
          /\ \/ Archived(f) /\ ~InInput(f)
             \/ /\ Logged("ERROR", "Error moving file", InPath(f)) \/ pc = "crashed"
                /\ InInput(f)
                /\ ~Exists(fs, ArcPath(f))
    /\ pc # "start" =>
          \A f \in Universe \ start :
              ~Discovered(f) /\ route[f] = "none" /\ calls[f] = <<>> /\ moves[f] = 0

\* a re-run in which one file was skipped and archived while another file,
\* archived by the earlier run, is left alone
C2_Witness ==
    /\ run = 2
    /\ pc = "done"
    /\ \E f \in hadDest : Archived(f) /\ ~InInput(f) /\ moves[f] = 1
    /\ \E g \in Universe \ start : Archived(g)

\* ------------------------------------------------------------- C3
\* C3: the Word handler calls the external conversion at most 3 times for
\* one file and never again after a successful call; the Excel and
\* PowerPoint handlers call it exactly once.
C3_RetryBound ==
    \A f \in Universe :
        /\ route[f] = "word" =>
              /\ Len(calls[f]) <= 3
              /\ \A i \in 1..Len(calls[f]) : calls[f][i] => i = Len(calls[f])
        /\ route[f] \in {"excel", "powerpoint"} => Len(calls[f]) = 1

\* ------------------------------------------------------------- C4
\* C4: an unsupported file whose destination did not exist has been copied
\* unchanged to <output root>/<its relative path> once its branch is done
\* (stated for the runs in which no call and no file operation failed).
C4_UnsupportedCopiedUnderOwnName ==
    \A f \in Universe :
        (route[f] = "unsupported" /\ pc # "crashed" /\ ~failed) =>
            /\ Exists(fs, Join(output_base_folder, f))
            /\ fs[Join(output_base_folder, f)] = Raw(f)

C6_RunVisitsEveryFile ==
    (pc \in {"done", "crashed"} /\ log # <<>>) =>
        \A f \in start : Discovered(f)

\* ------------------------------------------------------------- C7
\* C7: when copy_to_output fails for a file, the file stays in the input
\* tree and is not moved to the archive.
C7_CopyFailureLeavesSource ==
    \A f \in Universe :
        Logged("ERROR", "Error copying file", InPath(f)) =>
            InInput(f) /\ ~Exists(fs, ArcPath(f))

\* ------------------------------------------------------------- C8
\* C8: when a run finishes in which every conversion and every file
\* operation succeeded, the input tree holds no file, every discovered file
\* is in the archive at its relative path, and every discovered Office file
\* has a PDF at its destination path.
C8_AllSucceed ==
    (pc = "done" /\ ~failed) =>
        /\ InputFiles = {}
        /\ \A f \in start :
              /\ Archived(f)
              /\ Office(f) => Exists(fs, Dest(f)) /\ fs[Dest(f)].kind = "pdf"

\* ------------------------------------------------------------- C9
\* the directory copy_to_output writes to when --output-folder is relative
CopyArea == Dir(FALSE, processed_base_folder.parts \o OutputBase(FALSE).parts)

\* C9: every file that has left the input tree is at exactly
\* <archive root>/<its relative path>, and every file under the archive
\* root that move_to_processed put there holds the source whose relative
\* path it sits at.
C9_ArchiveKeepsRelativePath ==
    /\ \A f \in Universe :
          (f \in start /\ ~InInput(f)) => Archived(f)
    /\ \A p \in DOMAIN fs :
          (IsUnder(p, processed_base_folder) /\ ~IsUnder(p, CopyArea)) =>
              fs[p] = Raw(Relpath(p, processed_base_folder))

\* a file two directories deep has been moved to the archive
C9_Witness ==
    \E f \in Universe : Len(f.parts) = 2 /\ moves[f] = 1 /\ Archived(f) /\ ~InInput(f)

\* ------------------------------------------------------------- C10
LoggedFor(f) == \E i \in 1..Len(log) : log[i].ref \in {f, InPath(f)}

\* C10: when the traversal has moved on from a file (or finished), the run
\* log holds at least one entry for that file.
C10_EveryFileLogged ==
    \A f \in Universe : Returned(f) => LoggedFor(f)

\* the traversal has moved on from files handled on the skip path, by a
\* failing handler, and by the unsupported copy
C10_Witness ==
    /\ pc = "walk"
    /\ \E f \in Universe : Returned(f) /\ route[f] \in Handlers /\ AllCallsFailed(f)
    /\ \E f \in Universe : Returned(f) /\ route[f] \in {"skip", "unsupported"}

\* ------------------------------------------------------------- C11
\* the ERROR entries of the run log that name the relative path f
ErrorEntries(f) == { i \in 1..Len(log) : log[i].level = "ERROR" /\ log[i].ref = f }

\* C11 as claimed: a Word file whose conversion failed on all three
\* attempts has exactly one ERROR entry naming its relative path.
C11_OneErrorEntry ==
    \A f \in Universe :
        (route[f] = "word" /\ Returned(f) /\ calls[f] = <<FALSE, FALSE, FALSE>>) =>
            Cardinality(ErrorEntries(f)) = 1

\* C11 as amended: a Word file whose conversion failed on all three
\* attempts has exactly three ERROR entries naming its relative path, one
\* "Error converting Word file" entry per attempt.
C11_OneErrorEntryPerAttempt ==
    \A f \in Universe :
        (route[f] = "word" /\ Returned(f) /\ calls[f] = <<FALSE, FALSE, FALSE>>) =>
            /\ Cardinality(ErrorEntries(f)) = WordTries
            /\ \A i \in ErrorEntries(f) : log[i].msg = "Error converting Word file"

\* the traversal has moved on from a Word file that failed three times
C11_Witness ==
    \E f \in Universe :
        route[f] = "word" /\ Returned(f) /\ calls[f] = <<FALSE, FALSE, FALSE>>

\* ------------------------------------------------------------- C14
RootMissing ==
    \E r \in {output_base_folder, processed_base_folder, log_folder} : r \notin dirs

\* C14: when a root folder could not be created at startup, the run has
\* aborted without processing a file: nothing was visited, converted or
\* moved, and the file system holds only the untouched input files.
C14_ConfigurationFailureIsFatal ==
    (pc # "start" /\ RootMissing) =>
        /\ pc = "crashed"
        /\ visited = {}
        /\ calls = NoCalls
        /\ moves = NoMoves
        /\ route = NoRoute
        /\ \A p \in DOMAIN fs : IsUnder(p, input_folder) /\ fs[p] = Raw(RelPathOf(p))

\* the output root was created, the archive root could not be, and the
\* run is over with the input files in place
C14_Witness ==
    /\ pc = "crashed"
    /\ output_base_folder \in dirs
    /\ processed_base_folder \notin dirs
    /\ InputFiles # {}

\* ------------------------------------------------------------- C15
\* C15: convert_word_to_pdf never logs "Failed to convert Word file" and
\* never raises: every step of its retry loop stays in the loop or returns
\* to the traversal.
C15_GiveUpUnreachable ==
    /\ [](\A i \in 1..Len(log) : log[i].msg # "Failed to convert Word file")
    /\ [][pc = "word" => pc' \in {"word", "walk"}]_vars

\* the handler has returned to the traversal after three failed attempts
\* that were each followed by a retry message
C15_Witness ==
    /\ pc = "walk"
    /\ \E f \in Universe :
          /\ route[f] = "word"
          /\ Len(calls[f]) = WordTries
          /\ ~SomeCallOk(f)
          /\ InInput(f)
          /\ Cardinality({ i \in 1..Len(log) :
                             log[i] = Entry("INFO", "Retrying attempt", f) }) = WordTries

\* ------------------------------------------------------------- C16
\* C16: in the first run, which starts with an empty output tree, no file
\* is taken through the already-converted skip path, whatever other files
\* of the same run share its relative path minus extension (shown for runs
\* that met Office files only and in which no operation failed).
C16_NoSkipInFirstRun ==
    (run = 1 /\ ~failed /\ \A g \in Universe : Discovered(g) => Office(g)) =>
        \A f \in Universe : route[f] # "skip"

\* ------------------------------------------------------------- C17
\* C17: every Office file in the archive has a PDF at its destination path.
C17_ArchivedOfficeHasPdf ==
    \A f \in Universe :
        (Office(f) /\ Archived(f)) =>
            Exists(fs, Dest(f)) /\ fs[Dest(f)].kind = "pdf"

\* ------------------------------------------------------------- C12
PutsFor(p) == { i \in 1..Len(puts) : Join(folder_path, puts[i].object_name) = p }

\* C12: when the bucket check succeeded and no upload failed, upload_to_oci
\* has issued exactly one put_object per file under folder_path and no
\* other, under the file's path relative to folder_path; when the bucket
\* check failed it has issued no put_object.
C12_OnePutPerFile ==
    /\ upc = "done" =>
          /\ bucketCheck = "ok"
          /\ Len(puts) = Cardinality(UploadFiles)
          /\ \A p \in UploadFiles : Cardinality(PutsFor(p)) = 1
          /\ \A p \in UploadFiles : Relpath(p, folder_path) \in DOMAIN objects
    /\ bucketCheck \in {"ServiceError", "error"} =>
          upc \in {"returned", "crashed"} /\ puts = <<>> /\ objects = <<>>

\* a folder with a file of its own and a file two levels down was uploaded
C12_Witness ==
    /\ upc = "done"
    /\ Len(puts) = 2
    /\ \E i, j \in 1..2 : puts[i].object_name.parts = <<>> /\ Len(puts[j].object_name.parts) = 2

\* ------------------------------------------------------------- C13
\* C13: a failure while uploading one file does not abort the traversal:
\* once upload_to_oci is over after a successful bucket check, every file
\* under folder_path has been taken up, and every file but the failed ones
\* is in the bucket.
C13_UploadFailureSkipsOneFile ==
    (bucketCheck = "ok" /\ upc \notin {"check", "walk"}) =>
        /\ \A p \in UploadFiles : p \in uvisited
        /\ Cardinality(UploadFiles \ { Join(folder_path, n) : n \in DOMAIN objects }) <= 1

====
